---- MODULE Spec2Model ----
(***************************************************************************)
(* A model of src/main.rs of DigitSequenceCounter: the command line, the   *)
(* construction of one DigitSequenceCounter per sequence length, the byte  *)
(* pipeline of main (bytes / expect / skip_while / skip / for_each), the   *)
(* counters' process_character and the report written by Display::fmt.     *)
(*                                                                         *)
(* Bytes are their ASCII codes.  usize is WordBytes bytes wide and u128 is *)
(* CounterBits bits wide: both widths are scaled down so that the table    *)
(* sizes 2^(4L) and the counter maximum are numbers TLC can hold; every    *)
(* operation is written for the width, not for the scaled value.  The      *)
(* element size used by the allocation limit stays that of u128.           *)
(***************************************************************************)
EXTENDS Integers, Sequences, FiniteSets, TLC

(* ------------------------------ bounds -------------------------------- *)

\* size_of::<usize>(), scaled (8 on a 64-bit target).
WordBytes == 2
\* The width of a sequence_counts element, scaled (128 in the source).
CounterBits == 3
\* Most bytes of the input before the first '.', and most after it.
MaxHeaderLen == 1
MaxPayloadLen == 4

(* --------------------------- machine integers ------------------------- *)

UsizeBits == 8 * WordBytes
UsizeModulus == 2 ^ UsizeBits
UsizeMax == UsizeModulus - 1
IsizeMax == 2 ^ (UsizeBits - 1) - 1
CounterMax == 2 ^ CounterBits - 1
\* size_of::<u128>(): what one element of sequence_counts occupies.
ElemBytes == 16

RECURSIVE BitAnd(_, _)
BitAnd(x, y) ==
    IF x = 0 \/ y = 0 THEN 0
    ELSE 2 * BitAnd(x \div 2, y \div 2) + (IF x % 2 = 1 /\ y % 2 = 1 THEN 1 ELSE 0)

RECURSIVE BitOr(_, _)
BitOr(x, y) ==
    IF x = 0 THEN y
    ELSE IF y = 0 THEN x
    ELSE 2 * BitOr(x \div 2, y \div 2) + (IF x % 2 = 1 \/ y % 2 = 1 THEN 1 ELSE 0)

\* x << n on usize with n < UsizeBits: the bits shifted out are dropped.
ShiftLeft(x, n) == (x * 2 ^ n) % UsizeModulus

\* A subtraction that is left out: the bitmask is the modulus itself.
WrappingSubNothing(x, y) == x

\* x.wrapping_sub(y) on usize.
WrappingSub(x, y) == (x - y + UsizeModulus) % UsizeModulus

(* ------------------------------- Vec<u128> ---------------------------- *)

\* A vector of len elements, held as its length and its nonzero elements.
VecZeroed(n) == [len |-> n, nz |-> << >>]
VecGet(v, i) == IF i \in DOMAIN v.nz THEN v.nz[i] ELSE 0
VecSet(v, i, x) ==
    [v EXCEPT !.nz = IF x = 0
                     THEN [j \in DOMAIN v.nz \ {i} |-> v.nz[j]]
                     ELSE [j \in DOMAIN v.nz \cup {i} |-> IF j = i THEN x ELSE v.nz[j]]]

(* ------------------------- DigitSequenceCounter ----------------------- *)

LARGEST_SEQUENCE_LENGTH == ShiftLeft(WordBytes, 1)

NoCounter == [sequence_length |-> 0, current_sequence |-> 0,
              sequence_counts |-> VecZeroed(0), bitmask |-> 0, stalled_for |-> 0]

Panicked(msg) == [panic |-> msg, self |-> NoCounter]
Returned(counter) == [panic |-> "", self |-> counter]

\* new with a warm-up one digit short: stalled_for starts at L - 1.
newShortWarmup(sequence_length, overflow_checks) ==
    IF sequence_length > LARGEST_SEQUENCE_LENGTH
    THEN Panicked("Cannot create a DigitSequenceCounter for a sequence length greater than "
                  \o ToString(LARGEST_SEQUENCE_LENGTH) \o ".")
    ELSE LET amount == ShiftLeft(sequence_length, 2) IN
         IF amount >= UsizeBits /\ overflow_checks
         THEN Panicked("attempt to shift left with overflow")
         ELSE LET modulus == ShiftLeft(1, amount % UsizeBits) IN
              IF modulus * ElemBytes > IsizeMax
              THEN Panicked("capacity overflow")
              ELSE Returned([sequence_length |-> sequence_length,
                             current_sequence |-> 0,
                             sequence_counts |-> VecZeroed(modulus),
                             bitmask |-> WrappingSub(modulus, 1),
                             stalled_for |-> IF sequence_length = 0 THEN 0
                                             ELSE sequence_length - 1])

\* new with no warm-up: stalled_for starts at 0.
newWithoutWarmup(sequence_length, overflow_checks) ==
    IF sequence_length > LARGEST_SEQUENCE_LENGTH
    THEN Panicked("Cannot create a DigitSequenceCounter for a sequence length greater than "
                  \o ToString(LARGEST_SEQUENCE_LENGTH) \o ".")
    ELSE LET amount == ShiftLeft(sequence_length, 2) IN
         IF amount >= UsizeBits /\ overflow_checks
         THEN Panicked("attempt to shift left with overflow")
         ELSE LET modulus == ShiftLeft(1, amount % UsizeBits) IN
              IF modulus * ElemBytes > IsizeMax
              THEN Panicked("capacity overflow")
              ELSE Returned([sequence_length |-> sequence_length,
                             current_sequence |-> 0,
                             sequence_counts |-> VecZeroed(modulus),
                             bitmask |-> WrappingSub(modulus, 1),
                             stalled_for |-> 0])

\* DigitSequenceCounter::new.  overflow_checks is the build's setting: with
\* it an overflowing shift panics, without it the shift amount is masked.
new(sequence_length, overflow_checks) ==
    IF sequence_length > LARGEST_SEQUENCE_LENGTH
    THEN Panicked("Cannot create a DigitSequenceCounter for a sequence length greater than "
                  \o ToString(LARGEST_SEQUENCE_LENGTH) \o ".")
    ELSE LET amount == ShiftLeft(sequence_length, 2) IN
         IF amount >= UsizeBits /\ overflow_checks
         THEN Panicked("attempt to shift left with overflow")
         ELSE LET modulus == ShiftLeft(1, amount % UsizeBits) IN
              IF modulus * ElemBytes > IsizeMax
              THEN Panicked("capacity overflow")
              ELSE Returned([sequence_length |-> sequence_length,
                             current_sequence |-> 0,
                             sequence_counts |-> VecZeroed(modulus),
                             bitmask |-> WrappingSub(modulus, 1),
                             stalled_for |-> sequence_length])

NoDigit == -1

\* Digit with the letters' "+ 10" left out.
DigitWithoutTen(character) ==
    IF character \in 48..57 THEN BitAnd(character, 15)
    ELSE IF character \in 65..70 THEN character - 65
    ELSE IF character \in 97..102 THEN character - 97
    ELSE NoDigit

\* Digit with the arm of the lowercase letters left out.
DigitWithoutLowercase(character) ==
    IF character \in 48..57 THEN BitAnd(character, 15)
    ELSE IF character \in 65..70 THEN character - 65 + 10
    ELSE NoDigit

\* The match of process_character: the digit's value, or NoDigit for `_`.
Digit(character) ==
    IF character \in 48..57 THEN BitAnd(character, 15)
    ELSE IF character \in 65..70 THEN character - 65 + 10
    ELSE IF character \in 97..102 THEN character - 97 + 10
    ELSE NoDigit

\* sequence_counts[i] += 1 on the counter's element type.
Increment(self, i, overflow_checks) ==
    IF i >= self.sequence_counts.len
    THEN Panicked("index out of bounds")
    ELSE IF VecGet(self.sequence_counts, i) = CounterMax
    THEN IF overflow_checks
         THEN Panicked("attempt to add with overflow")
         ELSE Returned([self EXCEPT !.sequence_counts = VecSet(@, i, 0)])
    ELSE Returned([self EXCEPT !.sequence_counts =
                       VecSet(@, i, VecGet(self.sequence_counts, i) + 1)])

\* process_character whose `_` arm restarts the warm-up and leaves the window.
process_character_keeps_window(self, character, overflow_checks) ==
    LET digit == Digit(character) IN
    IF digit = NoDigit
    THEN Returned([self EXCEPT !.stalled_for = self.sequence_length])
    ELSE LET shifted == [self EXCEPT !.current_sequence =
                            BitAnd(BitOr(ShiftLeft(self.current_sequence, 4), digit),
                                   self.bitmask)]
         IN IF shifted.stalled_for = 0
            THEN Increment(shifted, shifted.current_sequence, overflow_checks)
            ELSE Returned([shifted EXCEPT !.stalled_for = @ - 1])

\* process_character whose `_` arm clears the window and leaves stalled_for.
process_character_keeps_stalled_for(self, character, overflow_checks) ==
    LET digit == Digit(character) IN
    IF digit = NoDigit
    THEN Returned([self EXCEPT !.current_sequence = 0])
    ELSE LET shifted == [self EXCEPT !.current_sequence =
                            BitAnd(BitOr(ShiftLeft(self.current_sequence, 4), digit),
                                   self.bitmask)]
         IN IF shifted.stalled_for = 0
            THEN Increment(shifted, shifted.current_sequence, overflow_checks)
            ELSE Returned([shifted EXCEPT !.stalled_for = @ - 1])

\* DigitSequenceCounter::process_character.
process_character(self, character, overflow_checks) ==
    LET digit == Digit(character) IN
    IF digit = NoDigit
    THEN Returned([self EXCEPT !.current_sequence = 0,
                               !.stalled_for = self.sequence_length])
    ELSE LET shifted == [self EXCEPT !.current_sequence =
                            BitAnd(BitOr(ShiftLeft(self.current_sequence, 4), digit),
                                   self.bitmask)]
         IN IF shifted.stalled_for = 0
            THEN Increment(shifted, shifted.current_sequence, overflow_checks)
            ELSE Returned([shifted EXCEPT !.stalled_for = @ - 1])

(* ------------------------------- Display ------------------------------ *)

RECURSIVE Descending(_)
\* The elements of a finite set of numbers, largest first.
Descending(S) ==
    IF S = {} THEN << >>
    ELSE LET m == CHOOSE i \in S : \A j \in S : i >= j
         IN <<m>> \o Descending(S \ {m})

RECURSIVE Ascending(_)
\* The elements of a finite set of numbers, smallest first.
Ascending(S) ==
    IF S = {} THEN << >>
    ELSE LET m == CHOOSE i \in S : \A j \in S : i <= j
         IN <<m>> \o Ascending(S \ {m})

\* sequence_counts.iter().filter(|x| **x != 0).collect()
nonzero_sequence_counts(self) ==
    LET v == self.sequence_counts
        indices == Ascending({i \in DOMAIN v.nz : i < v.len /\ v.nz[i] # 0})
    IN [k \in 1..Len(indices) |-> v.nz[indices[k]]]

RECURSIVE DebugItems(_)
DebugItems(values) ==
    IF values = << >> THEN ""
    ELSE IF Len(values) = 1 THEN ToString(values[1])
    ELSE ToString(values[1]) \o ", " \o DebugItems(Tail(values))

\* {:?} of a slice of integers.
DebugSlice(values) == "[" \o DebugItems(values) \o "]"

\* impl Display for DigitSequenceCounter: "{} {:?}".
fmt(self) ==
    ToString(Len(nonzero_sequence_counts(self))) \o " "
        \o DebugSlice(nonzero_sequence_counts(self))

(* ------------------------------ process_args -------------------------- *)

Plus == 43
Dot == 46
Zero == 48

\* A command-line argument (an OsString): its text as bytes, and whether
\* into_string accepts it.
Arg(text) == [utf8 |-> TRUE, text |-> text]
NonUtf8Arg == [utf8 |-> FALSE, text |-> << >>]

RECURSIVE ParseDigits(_, _)
\* The digit loop of usize::from_str: checked_mul(10), then checked_add.
ParseDigits(digits, acc) ==
    IF digits = << >> THEN [err |-> "", value |-> acc]
    ELSE IF Head(digits) \notin Zero..(Zero + 9)
    THEN [err |-> "invalid digit found in string", value |-> 0]
    ELSE IF acc * 10 + (Head(digits) - Zero) > UsizeMax
    THEN [err |-> "number too large to fit in target type", value |-> 0]
    ELSE ParseDigits(Tail(digits), acc * 10 + (Head(digits) - Zero))

\* str::parse::<usize>.
parse(text) ==
    IF text = << >> THEN [err |-> "cannot parse integer from empty string", value |-> 0]
    ELSE IF Head(text) = Plus
    THEN IF Tail(text) = << >>
         THEN [err |-> "invalid digit found in string", value |-> 0]
         ELSE ParseDigits(Tail(text), 0)
    ELSE ParseDigits(text, 0)

\* The bound on the maximum sequence length, off by one.
WithinLargestPlusOne(value) == value <= LARGEST_SEQUENCE_LENGTH + 1

\* Line 130: the bound on the maximum sequence length.
WithinLargest(value) == value <= LARGEST_SEQUENCE_LENGTH

\* process_args over the arguments args (args[1] is the program's name);
\* canonical says whether fs::canonicalize resolves the given path.
process_args(args, canonical) ==
    IF Len(args) < 2 THEN [err |-> "no given file path", path |-> << >>, max |-> 0]
    ELSE IF ~canonical
    THEN [err |-> "bad given file path: <io error>", path |-> << >>, max |-> 0]
    ELSE IF Len(args) < 3
    THEN [err |-> "no maximum sequence length", path |-> << >>, max |-> 0]
    ELSE IF ~args[3].utf8
    THEN [err |-> "bad maximum sequence length: non-UTF8 bytes", path |-> << >>, max |-> 0]
    ELSE IF parse(args[3].text).err # ""
    THEN [err |-> "bad maximum sequence length: " \o parse(args[3].text).err,
          path |-> << >>, max |-> 0]
    ELSE IF ~WithinLargest(parse(args[3].text).value)
    THEN [err |-> "maximum sequence length exceeds " \o ToString(LARGEST_SEQUENCE_LENGTH),
          path |-> << >>, max |-> 0]
    ELSE IF Len(args) > 3
    THEN [err |-> "too many arguments", path |-> << >>, max |-> 0]
    ELSE [err |-> "", path |-> args[2].text, max |-> parse(args[3].text).value]

(* ------------------------------- the inputs --------------------------- *)

RECURSIVE DecimalText(_)
\* The decimal digits of n, as bytes.
DecimalText(n) ==
    IF n < 10 THEN <<Zero + n>> ELSE DecimalText(n \div 10) \o <<Zero + (n % 10)>>

\* The texts given as the maximum sequence length: every number up to one
\* past the largest, a signed zero, a negative number, a number too large
\* for usize, a word and the empty text.
LengthTexts ==
    {DecimalText(n) : n \in 0..(LARGEST_SEQUENCE_LENGTH + 1)}
        \cup {<<Plus, Zero>>, <<45, Zero + 1>>, DecimalText(UsizeModulus), <<120>>, << >>}

ProgramName == Arg(<<112>>)
PathArg == Arg(<<102>>)

CommandLines ==
    {<<ProgramName>>, <<ProgramName, PathArg>>}
        \cup {<<ProgramName, PathArg, Arg(t)>> : t \in LengthTexts}
        \cup {<<ProgramName, PathArg, NonUtf8Arg>>}
        \cup {<<ProgramName, PathArg, Arg(t), Arg(<<120>>)>> : t \in LengthTexts}

\* The bytes a file holds before its first '.': a hex digit.
HeaderBytes == {49}
\* The bytes a file holds after it, all from one of: '.', '1'..'4'; '.',
\* '1', 'A', 'a', 'g'; '/', '0', '9', ':', 'F'; '@', 'G', '`', 'f', 'g'.
PayloadAlphabets ==
    {{Dot, 49, 50, 51, 52}, {Dot, 49, 65, 97, 103},
     {47, 48, 57, 58, 70}, {64, 71, 96, 102, 103}}
\* For the counters' overflow: a payload long enough to count one entry
\* past the counter's maximum.
OverflowAlphabets == {{Dot, 49}}
OverflowPayloadLen == CounterMax + 2

(* --------------------------------- main ------------------------------- *)

VARIABLES
    pc,                  \* where main is
    argv,                \* env::args_os()
    path,                \* main's path
    max_sequence_length, \* main's max_sequence_length
    sequence_counters,   \* main's sequence_counters
    flag,                \* SkipWhile: the first '.' has been met
    n,                   \* Skip: how many bytes are still to be dropped
    byte,                \* the byte given to the for_each closure
    next_counter,        \* the position of iter_mut / into_iter
    input,               \* history: the bytes read from the file so far
    fed,                 \* history: the bytes given to the closure so far
    processed,           \* history: per counter, the bytes it has processed
    stdout,              \* the lines printed
    stderr,              \* the messages written to standard error
    exit_status          \* << >> while running, then <<code>>

vars == <<pc, argv, path, max_sequence_length, sequence_counters, flag, n, byte,
          next_counter, input, fed, processed, stdout, stderr, exit_status>>

Init ==
    /\ pc = "args"
    /\ argv \in CommandLines
    /\ path = << >>
    /\ max_sequence_length = 0
    /\ sequence_counters = << >>
    /\ flag = FALSE
    /\ n = 1
    /\ byte = 0
    /\ next_counter = 1
    /\ input = << >>
    /\ fed = << >>
    /\ processed = << >>
    /\ stdout = << >>
    /\ stderr = << >>
    /\ exit_status = << >>

\* What main writes to standard error: lines 12-15, 28 and 34.
UsageMessage(err) ==
    "Usage: program <path to file> <maximum sequence length>\nError: " \o err
OpenErrorMessage == "Error opening file path: <io error>"
ReadErrorMessage == "Error reading file path: <io error>"

\* process::exit(code) after eprintln!(msg).
Exit(msg, code) ==
    /\ pc' = "exited"
    /\ stderr' = Append(stderr, msg)
    /\ exit_status' = <<code>>

\* A panic on the main thread: the message, then exit status 101.
Panic(msg) ==
    /\ pc' = "panicked"
    /\ stderr' = Append(stderr, msg)
    /\ exit_status' = <<101>>

\* Lines 9-18: process_args, and the usage error.
MainProcessArgs ==
    /\ pc = "args"
    /\ \E canonical \in BOOLEAN :
         LET r == process_args(argv, canonical) IN
         IF r.err # ""
         THEN /\ Exit(UsageMessage(r.err), 1)
              /\ UNCHANGED <<path, max_sequence_length>>
         ELSE /\ pc' = "construct"
              /\ path' = r.path
              /\ max_sequence_length' = r.max
              /\ UNCHANGED <<stderr, exit_status>>
    /\ UNCHANGED <<argv, sequence_counters, flag, n, byte, next_counter, input, fed,
                   processed, stdout>>

\* Lines 21-23: one turn of the loop that builds the counters.
MainNewCounter ==
    /\ pc = "construct"
    /\ Len(sequence_counters) < max_sequence_length
    /\ \E overflow_checks \in BOOLEAN :
         LET r == new(Len(sequence_counters) + 1, overflow_checks) IN
         IF r.panic # ""
         THEN /\ Panic(r.panic)
              /\ UNCHANGED <<sequence_counters, processed>>
         ELSE /\ sequence_counters' = Append(sequence_counters, r.self)
              /\ processed' = Append(processed, << >>)
              /\ UNCHANGED <<pc, stderr, exit_status>>
    /\ UNCHANGED <<argv, path, max_sequence_length, flag, n, byte, next_counter, input,
                   fed, stdout>>

\* File::open failing with the exit status of a usage error.
MainOpenFileExitOne ==
    /\ pc = "construct"
    /\ Len(sequence_counters) = max_sequence_length
    /\ \/ /\ pc' = "read"
          /\ UNCHANGED <<stderr, exit_status>>
       \/ Exit(OpenErrorMessage, 1)
    /\ UNCHANGED <<argv, path, max_sequence_length, sequence_counters, flag, n, byte,
                   next_counter, input, fed, processed, stdout>>

\* Lines 25-31: File::open, once the counters are built.
MainOpenFile ==
    /\ pc = "construct"
    /\ Len(sequence_counters) = max_sequence_length
    /\ \/ /\ pc' = "read"
          /\ UNCHANGED <<stderr, exit_status>>
       \/ Exit(OpenErrorMessage, 2)
    /\ UNCHANGED <<argv, path, max_sequence_length, sequence_counters, flag, n, byte,
                   next_counter, input, fed, processed, stdout>>

\* skip_while with a predicate that never holds: nothing is skipped.
SkipWhilePassesAll(passing, b) == TRUE

\* Line 35: skip_while lets b through once its flag is set, or when b is
\* the first byte that is a '.'.
SkipWhilePasses(passing, b) == passing \/ ~(b # Dot)

\* Lines 32-37: one byte pulled through bytes, map, skip_while and skip, and
\* given to the closure of for_each unless an adapter drops it.
ReadFrom(header_bytes, max_header, alphabets, max_payload) ==
    /\ pc = "read"
    /\ \E b \in header_bytes \cup UNION alphabets :
         /\ IF ~flag
            THEN b = Dot \/ (b \in header_bytes /\ Len(input) < max_header)
            ELSE /\ Len(fed) < max_payload
                 /\ \E A \in alphabets : b \in A /\ \A i \in 1..Len(fed) : fed[i] \in A
         /\ input' = Append(input, b)
         /\ IF ~SkipWhilePasses(flag, b)
            THEN UNCHANGED <<pc, flag, n, byte, next_counter, fed>>
            ELSE /\ flag' = TRUE
                 /\ IF n > 0
                    THEN /\ n' = n - 1
                         /\ UNCHANGED <<pc, byte, next_counter, fed>>
                    ELSE /\ byte' = b
                         /\ fed' = Append(fed, b)
                         /\ next_counter' = 1
                         /\ pc' = IF sequence_counters = << >> THEN "read" ELSE "feed"
                         /\ UNCHANGED n
    /\ UNCHANGED <<argv, path, max_sequence_length, sequence_counters, processed, stdout,
                   stderr, exit_status>>

MainReadByte == ReadFrom(HeaderBytes, MaxHeaderLen, PayloadAlphabets, MaxPayloadLen)

\* A failed read that is reported and then taken for the end of the file.
MainReadErrorThenReport ==
    /\ pc = "read"
    /\ pc' = "report"
    /\ next_counter' = 1
    /\ stderr' = Append(stderr, ReadErrorMessage)
    /\ UNCHANGED <<argv, path, max_sequence_length, sequence_counters, flag, n, byte,
                   input, fed, processed, stdout, exit_status>>

\* Line 34: a read of the file fails, and expect panics.
MainReadError ==
    /\ pc = "read"
    /\ Panic(ReadErrorMessage)
    /\ UNCHANGED <<argv, path, max_sequence_length, sequence_counters, flag, n, byte,
                   next_counter, input, fed, processed, stdout>>

\* The file ends: for_each returns.
MainReadEnd ==
    /\ pc = "read"
    /\ pc' = "report"
    /\ next_counter' = 1
    /\ UNCHANGED <<argv, path, max_sequence_length, sequence_counters, flag, n, byte,
                   input, fed, processed, stdout, stderr, exit_status>>

\* The closure of for_each handing the byte to the first counter only.
MainProcessCharacterFirstOnly ==
    /\ pc = "feed"
    /\ \E overflow_checks \in BOOLEAN :
         LET r == process_character(sequence_counters[next_counter], byte, overflow_checks) IN
         IF r.panic # ""
         THEN /\ Panic(r.panic)
              /\ UNCHANGED <<sequence_counters, processed, next_counter>>
         ELSE /\ sequence_counters' = [sequence_counters EXCEPT ![next_counter] = r.self]
              /\ processed' = [processed EXCEPT ![next_counter] = Append(@, byte)]
              /\ next_counter' = next_counter + 1
              /\ pc' = "read"
              /\ UNCHANGED <<stderr, exit_status>>
    /\ UNCHANGED <<argv, path, max_sequence_length, flag, n, byte, input, fed, stdout>>

\* Lines 38-40: the next counter processes the byte.
MainProcessCharacter ==
    /\ pc = "feed"
    /\ \E overflow_checks \in BOOLEAN :
         LET r == process_character(sequence_counters[next_counter], byte, overflow_checks) IN
         IF r.panic # ""
         THEN /\ Panic(r.panic)
              /\ UNCHANGED <<sequence_counters, processed, next_counter>>
         ELSE /\ sequence_counters' = [sequence_counters EXCEPT ![next_counter] = r.self]
              /\ processed' = [processed EXCEPT ![next_counter] = Append(@, byte)]
              /\ next_counter' = next_counter + 1
              /\ pc' = IF next_counter = Len(sequence_counters) THEN "read" ELSE "feed"
              /\ UNCHANGED <<stderr, exit_status>>
    /\ UNCHANGED <<argv, path, max_sequence_length, flag, n, byte, input, fed, stdout>>

\* Lines 43-45: the next counter's line is printed.
MainPrintln ==
    /\ pc = "report"
    /\ next_counter <= Len(sequence_counters)
    /\ stdout' = Append(stdout, fmt(sequence_counters[next_counter]))
    /\ next_counter' = next_counter + 1
    /\ UNCHANGED <<pc, argv, path, max_sequence_length, sequence_counters, flag, n, byte,
                   input, fed, processed, stderr, exit_status>>

\* Line 46: main returns.
MainReturn ==
    /\ pc = "report"
    /\ next_counter > Len(sequence_counters)
    /\ pc' = "exited"
    /\ exit_status' = <<0>>
    /\ UNCHANGED <<argv, path, max_sequence_length, sequence_counters, flag, n, byte,
                   next_counter, input, fed, processed, stdout, stderr>>

Next ==
    \/ MainProcessArgs
    \/ MainNewCounter
    \/ MainOpenFile
    \/ MainReadByte
    \/ MainReadError
    \/ MainReadEnd
    \/ MainProcessCharacter
    \/ MainPrintln
    \/ MainReturn

Spec == Init /\ [][Next]_vars

\* The same program on payloads that repeat one digit until a counter
\* overflows.
MainReadByteLong == ReadFrom(HeaderBytes, MaxHeaderLen, OverflowAlphabets, OverflowPayloadLen)

NextLong ==
    \/ MainProcessArgs
    \/ MainNewCounter
    \/ MainOpenFile
    \/ MainReadByteLong
    \/ MainReadError
    \/ MainReadEnd
    \/ MainProcessCharacter
    \/ MainPrintln
    \/ MainReturn

SpecLong == Init /\ [][NextLong]_vars

(* ---------------------- DigitSequenceCounter alone -------------------- *)

\* DigitSequenceCounter used by itself: new for one sequence length, then
\* process_character on the bytes of a payload long enough for the longest
\* counter to count.
CounterPayloadLen == LARGEST_SEQUENCE_LENGTH + 1

InitCounter ==
    /\ pc = "new"
    /\ argv = << >>
    /\ path = << >>
    /\ max_sequence_length = 0
    /\ sequence_counters = << >>
    /\ flag = FALSE
    /\ n = 0
    /\ byte = 0
    /\ next_counter = 1
    /\ input = << >>
    /\ fed = << >>
    /\ processed = << >>
    /\ stdout = << >>
    /\ stderr = << >>
    /\ exit_status = << >>

\* Lines 60-75: new, for every length up to one past the largest.
CounterNew ==
    /\ pc = "new"
    /\ \E sequence_length \in 1..(LARGEST_SEQUENCE_LENGTH + 1), overflow_checks \in BOOLEAN :
         LET r == new(sequence_length, overflow_checks) IN
         IF r.panic # ""
         THEN /\ Panic(r.panic)
              /\ UNCHANGED <<sequence_counters, processed>>
         ELSE /\ sequence_counters' = <<r.self>>
              /\ processed' = << << >> >>
              /\ pc' = "process"
              /\ UNCHANGED <<stderr, exit_status>>
    /\ UNCHANGED <<argv, path, max_sequence_length, flag, n, byte, next_counter, input,
                   fed, stdout>>

\* Lines 77-95: process_character on the next byte.
CounterProcessCharacter ==
    /\ pc = "process"
    /\ Len(fed) < CounterPayloadLen
    /\ \E b \in UNION PayloadAlphabets, overflow_checks \in BOOLEAN :
         /\ \E A \in PayloadAlphabets : b \in A /\ \A i \in 1..Len(fed) : fed[i] \in A
         /\ byte' = b
         /\ fed' = Append(fed, b)
         /\ LET r == process_character(sequence_counters[1], b, overflow_checks) IN
            IF r.panic # ""
            THEN /\ Panic(r.panic)
                 /\ UNCHANGED <<sequence_counters, processed>>
            ELSE /\ sequence_counters' = <<r.self>>
                 /\ processed' = <<Append(processed[1], b)>>
                 /\ UNCHANGED <<pc, stderr, exit_status>>
    /\ UNCHANGED <<argv, path, max_sequence_length, flag, n, next_counter, input, stdout>>

NextCounter ==
    \/ CounterNew
    \/ CounterProcessCharacter

SpecCounter == InitCounter /\ [][NextCounter]_vars

(* -------------------------- the claims' vocabulary -------------------- *)

\* The bytes the hexadecimal alphabet holds, and the value of each.
HexDigitBytes == (48..57) \cup (65..70) \cup (97..102)
HexValue(b) ==
    CHOOSE v \in 0..15 : b \in (IF v < 10 THEN {48 + v} ELSE {55 + v, 87 + v})

RECURSIVE RunEnding(_, _)
\* How many consecutive hex digits of s end at position p.
RunEnding(s, p) ==
    IF p = 0 \/ s[p] \notin HexDigitBytes THEN 0 ELSE 1 + RunEnding(s, p - 1)

RECURSIVE WindowValue(_, _, _)
\* The number the len digits of s ending at position p spell, the earlier
\* digit the more significant.
WindowValue(s, p, len) ==
    IF len = 0 THEN 0 ELSE 16 * WindowValue(s, p - 1, len - 1) + HexValue(s[p])

RECURSIVE SumOver(_, _)
SumOver(f, S) ==
    IF S = {} THEN 0
    ELSE LET i == CHOOSE j \in S : TRUE IN f[i] + SumOver(f, S \ {i})

\* The sum of all entries of a table.
TableSum(v) == SumOver(v.nz, DOMAIN v.nz)

\* The bytes of s strictly after its first '.'; none when s holds no '.'.
AfterFirstDot(s) ==
    IF \E i \in 1..Len(s) : s[i] = Dot
    THEN LET first == CHOOSE i \in 1..Len(s) :
                         s[i] = Dot /\ \A j \in 1..(i - 1) : s[j] # Dot
         IN SubSeq(s, first + 1, Len(s))
    ELSE << >>

IsPrefix(s, t) == Len(s) <= Len(t) /\ s = SubSeq(t, 1, Len(s))

(* --------------------------------- C1 --------------------------------- *)

\* C1 (as claimed): once the whole payload is processed, the entries of the
\* table of the counter for L sum to the number of windows of L digits the
\* payload holds: max(0, r - L + 1) for each maximal run of r hex digits,
\* that is one for every position at which a run of at least L digits ends.
C1_TableSumCountsEveryWindow ==
    pc = "report" =>
        \A k \in 1..Len(sequence_counters) :
            TableSum(sequence_counters[k].sequence_counts)
                = Cardinality({p \in 1..Len(fed) :
                                   RunEnding(fed, p) >= sequence_counters[k].sequence_length})

(* --------------------------------- C2 --------------------------------- *)

\* One process_character step on a hex digit: within the first L digits of
\* a run it decrements stalled_for and leaves the table alone; later in the
\* run it adds exactly 1 to the entry of the last L digits and to no other.
C2_Step ==
    pc = "feed" =>
        LET before == sequence_counters[next_counter]
            after == sequence_counters'[next_counter]
            len == before.sequence_length
            window == WindowValue(fed, Len(fed), len)
        IN /\ pc' \in {"feed", "read"}
           /\ byte \in HexDigitBytes =>
                IF RunEnding(fed, Len(fed)) <= len
                THEN /\ after.stalled_for = before.stalled_for - 1
                     /\ after.sequence_counts = before.sequence_counts
                ELSE /\ after.stalled_for = before.stalled_for
                     /\ after.sequence_counts.len = before.sequence_counts.len
                     /\ \A i \in DOMAIN before.sequence_counts.nz
                                   \cup DOMAIN after.sequence_counts.nz \cup {window} :
                            VecGet(after.sequence_counts, i)
                                = VecGet(before.sequence_counts, i)
                                      + (IF i = window THEN 1 ELSE 0)

\* The payload "1234" and the counter for L = 2: entries 0x23 and 0x34 are
\* 1, every other entry is 0, and the line printed is "2 [1, 1]".
C2_Example ==
    (fed = <<49, 50, 51, 52>> /\ Len(sequence_counters) >= 2) =>
        /\ pc = "report" =>
               \A i \in 0..(sequence_counters[2].sequence_counts.len - 1) :
                   VecGet(sequence_counters[2].sequence_counts, i)
                       = (IF i \in {35, 52} THEN 1 ELSE 0)
        /\ Len(stdout) >= 2 => stdout[2] = "2 [1, 1]"

\* C2: in a run of hex digits that starts at the start of the payload or
\* after a reset, each of the first L digits only decrements stalled_for and
\* changes no entry, and each later digit adds exactly 1 to the entry of the
\* window of the last L digits; "1234" with L = 2 is reported "2 [1, 1]".
C2_WarmupThenCount == [][C2_Step]_vars /\ []C2_Example

\* The payload "1234" has been counted and the line for L = 2 printed.
C2_Witness ==
    /\ pc = "exited"
    /\ fed = <<49, 50, 51, 52>>
    /\ Len(stdout) = 2
    /\ stdout[2] = "2 [1, 1]"

(* --------------------------------- C3 --------------------------------- *)

\* C3: the bytes given to the counters are those after the first '.' of the
\* input, in order: every counter has processed a prefix of them, all of
\* them once the report starts; when there are none, no counter processes a
\* byte and every line printed is "0 []".
C3_OnlyPayloadReachesCounters ==
    /\ fed = AfterFirstDot(input)
    /\ pc = "feed" => fed # << >> /\ byte = fed[Len(fed)]
    /\ \A k \in 1..Len(processed) :
           /\ IsPrefix(processed[k], AfterFirstDot(input))
           /\ pc \in {"report", "exited"} => processed[k] = AfterFirstDot(input)
    /\ AfterFirstDot(input) = << >> =>
           /\ \A k \in 1..Len(processed) : processed[k] = << >>
           /\ \A k \in 1..Len(stdout) : stdout[k] = "0 []"

\* A header holding a hex digit, then a payload holding a second '.', has
\* been processed by two counters and reported.
C3_Witness ==
    /\ pc = "exited"
    /\ input = <<49, Dot, 49, Dot, 50>>
    /\ Len(processed) = 2
    /\ processed[2] = <<49, Dot, 50>>
    /\ Len(stdout) = 2

(* --------------------------------- C4 --------------------------------- *)

\* C4 (as claimed): a process_character step never panics, and an entry that
\* holds the counter's maximum still holds it after the step.
C4_IncrementSaturates ==
    [][pc = "feed" =>
          /\ pc' # "panicked"
          /\ \A i \in DOMAIN sequence_counters[next_counter].sequence_counts.nz :
                 VecGet(sequence_counters[next_counter].sequence_counts, i) = CounterMax
                     => VecGet(sequence_counters'[next_counter].sequence_counts, i)
                            = CounterMax]_vars

(* --------------------------------- C5 --------------------------------- *)

\* C5 (as claimed): for every L from 1 to LARGEST_SEQUENCE_LENGTH, the call
\* new(L) that main makes returns a counter whose table has 2^(4L) entries
\* and whose bitmask is 2^(4L) - 1.
C5_NewSucceedsUpToLargest ==
    [][(pc = "construct" /\ Len(sequence_counters) < max_sequence_length) =>
          LET len == Len(sequence_counters) + 1 IN
          /\ len <= LARGEST_SEQUENCE_LENGTH
          /\ pc' = "construct"
          /\ Len(sequence_counters') = len
          /\ sequence_counters'[len].sequence_counts.len = 2 ^ (4 * len)
          /\ sequence_counters'[len].bitmask = 2 ^ (4 * len) - 1]_vars

(* --------------------------------- C6 --------------------------------- *)

\* The texts of numbers greater than LARGEST_SEQUENCE_LENGTH.
TooLargeTexts ==
    {DecimalText(LARGEST_SEQUENCE_LENGTH + 1), DecimalText(UsizeModulus)}

\* C6: a maximum sequence length greater than LARGEST_SEQUENCE_LENGTH ends
\* the run as a usage error while no counter is built, no byte is read and
\* nothing is printed; and no counter ever has a greater sequence length.
C6_TooLargeRejectedFirst ==
    /\ (Len(argv) >= 3 /\ argv[3].utf8 /\ argv[3].text \in TooLargeTexts) =>
           /\ pc \in {"args", "exited"}
           /\ sequence_counters = << >>
           /\ input = << >>
           /\ stdout = << >>
           /\ pc = "exited" => exit_status = <<1>> /\ Len(stderr) = 1
    /\ \A k \in 1..Len(sequence_counters) :
           sequence_counters[k].sequence_length <= LARGEST_SEQUENCE_LENGTH

\* The length LARGEST_SEQUENCE_LENGTH + 1 has been refused.
C6_Witness ==
    /\ pc = "exited"
    /\ Len(argv) = 3
    /\ argv[3].text = DecimalText(LARGEST_SEQUENCE_LENGTH + 1)
    /\ stderr = <<UsageMessage("maximum sequence length exceeds "
                                   \o ToString(LARGEST_SEQUENCE_LENGTH))>>
    /\ exit_status = <<1>>

(* --------------------------------- C7 --------------------------------- *)

\* C7 (as claimed): a maximum sequence length that is 0 or greater than
\* LARGEST_SEQUENCE_LENGTH ends the run as a usage error before any byte is
\* read, and nothing is printed.
C7_OutOfRangeRejected ==
    (Len(argv) >= 3 /\ argv[3].utf8
         /\ argv[3].text \in {DecimalText(0)} \cup TooLargeTexts) =>
        /\ pc \in {"args", "exited"}
        /\ input = << >>
        /\ stdout = << >>
        /\ pc = "exited" => exit_status = <<1>>

(* --------------------------------- C8 --------------------------------- *)

\* The indices of a table's nonzero entries.
NonzeroIndices(v) == {i \in DOMAIN v.nz : i < v.len /\ v.nz[i] # 0}

\* The k-th nonzero entry of a table, by index.
NthNonzero(v, k) ==
    v.nz[CHOOSE i \in NonzeroIndices(v) :
             Cardinality({j \in NonzeroIndices(v) : j < i}) = k - 1]

RECURSIVE NonzeroFrom(_, _)
NonzeroFrom(v, k) ==
    IF k > Cardinality(NonzeroIndices(v)) THEN ""
    ELSE ToString(NthNonzero(v, k))
             \o (IF k < Cardinality(NonzeroIndices(v)) THEN ", " ELSE "")
             \o NonzeroFrom(v, k + 1)

\* The line the report owes a table: how many entries are nonzero, then
\* those entries by ascending index.
ReportLine(v) ==
    ToString(Cardinality(NonzeroIndices(v))) \o " [" \o NonzeroFrom(v, 1) \o "]"

C8_Report ==
    /\ \A i \in 1..Len(stdout) :
           /\ i <= Len(sequence_counters)
           /\ sequence_counters[i].sequence_length = i
           /\ stdout[i] = ReportLine(sequence_counters[i].sequence_counts)
    /\ exit_status = <<0>> =>
           /\ Len(stdout) = max_sequence_length
           /\ Len(sequence_counters) = max_sequence_length
    /\ stdout # << >> =>
           /\ pc \in {"report", "exited"}
           /\ \A k \in 1..Len(sequence_counters) : processed[k] = AfterFirstDot(input)

C8_ReportStep ==
    pc = "report" =>
        /\ sequence_counters' = sequence_counters
        /\ input' = input
        /\ IsPrefix(stdout, stdout')
        /\ Len(stdout') <= Len(stdout) + 1

\* C8: the report is one line per counter, by increasing L from 1 to the
\* maximum; a line is the number of nonzero entries and then those entries
\* by ascending index; printing changes no counter, and no line is printed
\* before every counter has processed the whole payload.
C8_ReportAfterStream == []C8_Report /\ [][C8_ReportStep]_vars

\* Two lines have been printed, the first for a table with two entries
\* whose values differ.
C8_Witness ==
    /\ pc = "exited"
    /\ stdout = <<"2 [2, 1]", "2 [1, 1]">>

(* --------------------------------- C9 --------------------------------- *)

\* C9: a run in which an error was reported, or that ended with a panic or
\* a non-zero exit status, has printed no line of the report.
C9_NoReportOnFailure ==
    (stderr # << >> \/ pc = "panicked" \/ exit_status \notin {<< >>, <<0>>})
        => stdout = << >>

\* A read has failed after a counter had counted a window.
C9_Witness ==
    /\ pc = "panicked"
    /\ stderr = <<ReadErrorMessage>>
    /\ \E k \in 1..Len(sequence_counters) :
           sequence_counters[k].sequence_counts.nz # << >>
    /\ stdout = << >>

(* --------------------------------- C10 -------------------------------- *)

Terminated == pc \in {"exited", "panicked"}

\* The command lines that are usage errors whatever the file system holds.
BadCommandLine ==
    \/ Len(argv) # 3
    \/ ~argv[3].utf8
    \/ argv[3].text \in TooLargeTexts \cup {<< >>, <<120>>, <<45, Zero + 1>>}

\* What a run's end owes its cause: a usage error the status 1, a failure
\* to open the file another non-zero status, success the report and 0.
C10_Causes ==
    /\ (Terminated /\ BadCommandLine) => exit_status = <<1>>
    /\ stderr = <<UsageMessage("bad given file path: <io error>")>> => exit_status = <<1>>
    /\ exit_status = <<1>> => Len(stderr) = 1 /\ stdout = << >> /\ input = << >>
    /\ stderr = <<OpenErrorMessage>> =>
           /\ Terminated
           /\ exit_status \notin {<< >>, <<0>>, <<1>>}
    /\ (pc = "exited" /\ stderr = << >>) => exit_status = <<0>>
    /\ exit_status = <<0>> => stderr = << >> /\ Len(stdout) = max_sequence_length

C10_NonHexStep ==
    (pc = "feed" /\ byte \notin HexDigitBytes) =>
        /\ pc' \in {"feed", "read"}
        /\ stderr' = stderr
        /\ exit_status' = exit_status

C11_Step ==
    (pc = "feed" /\ sequence_counters'[next_counter].sequence_counts
                        # sequence_counters[next_counter].sequence_counts) =>
        LET before == sequence_counters[next_counter].sequence_counts
            after == sequence_counters'[next_counter].sequence_counts
            len == sequence_counters[next_counter].sequence_length
        IN /\ Len(fed) >= len
           /\ \A p \in (Len(fed) - len + 1)..Len(fed) : fed[p] \in HexDigitBytes
           /\ \A i \in DOMAIN before.nz \cup DOMAIN after.nz :
                  VecGet(after, i) # VecGet(before, i)
                      => i = WindowValue(fed, Len(fed), len)

\* C11: no entry is ever incremented for a window that spans a reset or the
\* start of the payload: whenever process_character changes an entry, the L
\* bytes ending at that byte are hex digits and the entry is their value.
C11_NoWindowAcrossReset == [][C11_Step]_vars

\* After a reset in the payload, the counter for L = 2 has counted a window
\* again.
C11_Witness ==
    /\ pc = "report"
    /\ fed = <<Dot, 50, 51, 52>>
    /\ Len(sequence_counters) = 2
    /\ sequence_counters[2].sequence_counts.nz = (52 :> 1)

(* --------------------------------- C12 -------------------------------- *)

\* A hex letter in its other case; any other byte as it is.
SwapCase(b) ==
    IF b \in 65..70 THEN b + 32 ELSE IF b \in 97..102 THEN b - 32 ELSE b

\* A process_character step on a hex letter leaves the counter as the same
\* step on the letter in the other case would.
C12_Step ==
    (pc = "feed" /\ pc' # "panicked") =>
        sequence_counters'[next_counter]
            = process_character(sequence_counters[next_counter], SwapCase(byte), FALSE).self

\* Every hex letter is the digit the same letter in the other case is, and
\* "aAbBcC" and "AaBbCc" decode to the same digits.
C12_Digits ==
    /\ \A b \in (65..70) \cup (97..102) :
           Digit(b) # NoDigit /\ Digit(b) = Digit(SwapCase(b))
    /\ [i \in 1..6 |-> Digit(<<97, 65, 98, 66, 99, 67>>[i])] = <<10, 10, 11, 11, 12, 12>>
    /\ [i \in 1..6 |-> Digit(<<65, 97, 66, 98, 67, 99>>[i])] = <<10, 10, 11, 11, 12, 12>>

\* C12: decoding ignores the case of the hex letters: a letter and the same
\* letter in the other case are the same digit, so every step of every
\* counter, and with it the sequence of windows, stalled_for and the final
\* table, is the same on payloads that differ in case only; "aAbBcC" and
\* "AaBbCc" both decode to 10, 10, 11, 11, 12, 12.
C12_CaseInsensitive == []C12_Digits /\ [][C12_Step]_vars

\* The payload "aA1A" has been processed: the counter for L = 1 has counted
\* the entry 10 twice.
C12_Witness ==
    /\ pc = "report"
    /\ fed = <<97, 65, 49, 65>>
    /\ Len(sequence_counters) >= 1
    /\ VecGet(sequence_counters[1].sequence_counts, 10) = 2

(* --------------------------------- C13 -------------------------------- *)

\* C13: a counter that has only processed runs of hex digits shorter than
\* its L has an all-zero table, and the line printed for it is "0 []".
C13_ShortRunsCountNothing ==
    \A k \in 1..Len(sequence_counters) :
        (\A p \in 1..Len(processed[k]) :
             RunEnding(processed[k], p) < sequence_counters[k].sequence_length) =>
            /\ sequence_counters[k].sequence_counts.nz = << >>
            /\ k <= Len(stdout) => stdout[k] = "0 []"

\* The payload "1.1" has two runs of one digit, shorter than L = 2: the
\* line printed for the counter for L = 2 is "0 []".
C13_Witness ==
    /\ fed = <<49, Dot, 49>>
    /\ Len(stdout) = 2
    /\ stdout[2] = "0 []"

(* --------------------------------- C14 -------------------------------- *)

\* The positions of the payload s at which a run of at least len hex digits
\* ends whose last len digits spell v.
RunPositions(s, len, v) ==
    {p \in 1..Len(s) : RunEnding(s, p) >= len /\ WindowValue(s, p, len) = v}

\* C14: when the payload has been processed, every entry v of the table of
\* the counter for L holds the number of positions at which a run of at
\* least L hex digits ends whose last L digits spell v.
C14_TableCountsRunPositions ==
    pc \in {"report", "exited"} =>
        \A k \in 1..Len(sequence_counters) :
            LET table == sequence_counters[k].sequence_counts
                ends == {p \in 1..Len(fed) : RunEnding(fed, p) >= k}
            IN \A v \in DOMAIN table.nz \cup {WindowValue(fed, p, k) : p \in ends} :
                   VecGet(table, v) = Cardinality(RunPositions(fed, k, v))

(* --------------------------------- C16 -------------------------------- *)

\* A process_character step on a byte that is no hex digit.
C16_Step ==
    (pc = "feed" /\ byte \notin HexDigitBytes) =>
        /\ pc' # "panicked"
        /\ stderr' = stderr
        /\ sequence_counters'[next_counter] =
               [sequence_counters[next_counter] EXCEPT
                    !.current_sequence = 0,
                    !.stalled_for = sequence_counters[next_counter].sequence_length]

\* C16: processing a byte that is no hex digit, a '.' of the payload
\* included, sets current_sequence to 0 and stalled_for to L, leaves the
\* table, sequence_length and bitmask as they were, and raises no error.
C16_NonDigitResets == [][C16_Step]_vars

\* The '.' of the payload "11." has been processed by the counter for L = 1,
\* which had counted the entry 1: the window and the warm-up are reset and
\* the count is kept.
C16_Witness ==
    /\ fed = <<49, 49, Dot>>
    /\ Len(sequence_counters) >= 1
    /\ processed[1] = fed
    /\ sequence_counters[1].current_sequence = 0
    /\ sequence_counters[1].stalled_for = 1
    /\ sequence_counters[1].sequence_counts.nz = (1 :> 1)

(* --------------------------------- C17 -------------------------------- *)

\* C17: stalled_for is max(0, L - d), d the number of hex digits processed
\* since the last reset (or the start); it is 0 exactly when d >= L.
C17_WarmupRemaining ==
    \A k \in 1..Len(sequence_counters) :
        LET d == RunEnding(processed[k], Len(processed[k]))
            len == sequence_counters[k].sequence_length
        IN /\ sequence_counters[k].stalled_for = (IF len > d THEN len - d ELSE 0)
           /\ sequence_counters[k].stalled_for = 0 <=> d >= len

\* After "1.23" the counter for L = 1 is active and the counter for L = 2
\* has just become active.
C17_Witness ==
    /\ pc = "read"
    /\ fed = <<49, Dot, 50, 51>>
    /\ Len(sequence_counters) = 2
    /\ sequence_counters[1].stalled_for = 0
    /\ sequence_counters[2].stalled_for = 0

(* --------------------------------- C18 -------------------------------- *)

RECURSIVE Replay(_, _)
\* The counter that results from processing the bytes s, one after the
\* other, starting from counter.
Replay(counter, s) ==
    IF s = << >> THEN counter
    ELSE Replay(process_character(counter, Head(s), FALSE).self, Tail(s))

\* Where each counter stands in the payload: while a byte is handed round,
\* the counters before next_counter have processed it and the others have
\* processed everything before it; otherwise every counter has processed
\* every byte fed.  Each counter is in the state it reaches alone.
C18_Lockstep ==
    /\ Len(processed) = Len(sequence_counters)
    /\ \A k \in 1..Len(sequence_counters) :
           /\ processed[k] = (IF pc = "feed" /\ k >= next_counter
                              THEN SubSeq(fed, 1, Len(fed) - 1) ELSE fed)
           /\ sequence_counters[k] = Replay(new(k, FALSE).self, processed[k])

\* A process_character step: one counter takes the byte, the others keep
\* every field.
C18_Step ==
    pc = "feed" =>
        /\ Len(sequence_counters') = Len(sequence_counters)
        /\ processed'[next_counter] = Append(processed[next_counter], byte)
        /\ \A j \in 1..Len(sequence_counters) :
               j # next_counter => /\ sequence_counters'[j] = sequence_counters[j]
                                   /\ processed'[j] = processed[j]

\* C18: the counters advance in lockstep and independently: every counter
\* processes byte i exactly once before any processes byte i + 1, a
\* process_character step on one counter changes no field of another, and
\* each counter ends in the state it would reach processing the payload
\* alone.
C18_LockstepIndependent == []C18_Lockstep /\ [][C18_Step]_vars

\* The payload "1234" has been processed by two counters, which have counted
\* different windows.
C18_Witness ==
    /\ pc = "report"
    /\ fed = <<49, 50, 51, 52>>
    /\ Len(sequence_counters) = 2
    /\ sequence_counters[1].sequence_counts.nz = (2 :> 1) @@ (3 :> 1) @@ (4 :> 1)
    /\ sequence_counters[2].sequence_counts.nz = (35 :> 1) @@ (52 :> 1)

(* --------------------------------- C15 -------------------------------- *)

\* C15: in every state of a counter for any L up to LARGEST_SEQUENCE_LENGTH,
\* current_sequence is the value of the last min(L, d) hex digits processed,
\* d the number of digits since the last reset or the start, the latest
\* digit lowest, masked to 4 * L bits.
C15_WindowHoldsLastDigits ==
    \A k \in 1..Len(sequence_counters) :
        LET len == sequence_counters[k].sequence_length
            d == RunEnding(processed[k], Len(processed[k]))
        IN sequence_counters[k].current_sequence
               = WindowValue(processed[k], Len(processed[k]),
                             IF len < d THEN len ELSE d) % (16 ^ len)

(* --------------------------------- C19 -------------------------------- *)

\* C19: in every state of a counter for any L up to LARGEST_SEQUENCE_LENGTH,
\* 0 <= stalled_for <= sequence_length and
\* current_sequence <= bitmask < sequence_counts.len(), and the access
\* sequence_counts[current_sequence] never fails.
C19_FieldsInBounds ==
    /\ \A k \in 1..Len(sequence_counters) :
           /\ sequence_counters[k].stalled_for \in 0..sequence_counters[k].sequence_length
           /\ sequence_counters[k].current_sequence \in 0..sequence_counters[k].bitmask
           /\ sequence_counters[k].bitmask < sequence_counters[k].sequence_counts.len
           /\ \A i \in DOMAIN sequence_counters[k].sequence_counts.nz :
                  i \in 0..(sequence_counters[k].sequence_counts.len - 1)
    /\ \A i \in 1..Len(stderr) : stderr[i] # "index out of bounds"

\* The counter for L = LARGEST_SEQUENCE_LENGTH, built without overflow
\* checks, has counted a window.
C19_Witness ==
    /\ Len(sequence_counters) = 1
    /\ sequence_counters[1].sequence_length = LARGEST_SEQUENCE_LENGTH
    /\ sequence_counters[1].stalled_for = 0
    /\ sequence_counters[1].sequence_counts.nz # << >>

====
